---- MODULE Spec2Model ----
(***************************************************************************)
(* Model of scripts/pre_commit_linter.py: the module-level pylint check,   *)
(* _pre_commit_linter, _get_changed_filenames,                             *)
(* _get_all_files_in_directory, _lint_js_files and _lint_py_files.         *)
(*                                                                         *)
(* Python strings are sequences of one-character strings, so that          *)
(* str.endswith, os.path.join and os.path.relpath are computed and not     *)
(* assumed.  The empty string and None are both the empty sequence: the    *)
(* script only ever tests them for truthiness.                             *)
(***************************************************************************)
EXTENDS Integers, Sequences, FiniteSets, TLC

(***************************************************************************)
(* Bounds of the environment the script runs in.                           *)
(***************************************************************************)
MaxUnstaged == 2
MaxStaged == 1
MaxDirFiles == 1

(***************************************************************************)
(* File names the version-control backend and the directory walk may       *)
(* report.  "d.jsx" is the file of no recognised language: it contains     *)
(* ".js" without ending in it.                                             *)
(***************************************************************************)
NameAJs == <<"a", ".", "j", "s">>
NameBJs == <<"b", ".", "j", "s">>
NameAPy == <<"a", ".", "p", "y">>
NameDJsx == <<"d", ".", "j", "s", "x">>
NameSrc == <<"s", "r", "c">>

FileNames == {NameAJs, NameBJs, NameAPy, NameDJsx}

\* Values of the --path argument; the empty sequence is "no --path given".
NoPath == <<>>
PathArgs == {NoPath, NameAJs, NameSrc}

\* Working directories the script may be started in.
CwdOppia == <<"/", "o", "p", "p", "i", "a">>
CwdOther == <<"/", "t">>
Cwds == {CwdOppia, CwdOther}

\* Sequences over S of length at most n in which no element occurs twice
\* (a git listing or a directory walk names each file once).
NoDupSeqs(S, n) ==
    UNION {{s \in [1..k -> S] : \A i, j \in 1..k : i # j => s[i] # s[j]} : k \in 0..n}

\* What a linter process wrote to one of its streams: nothing, or some text.
StreamTexts == {<<>>, <<"x">>}

(***************************************************************************)
(* Pure helpers of the Python runtime, computed as Python computes them.   *)
(***************************************************************************)
\* bool(x) for a string or a list
Truthy(x) == x # <<>>

\* str.endswith
EndsWithContains(s, suffix) ==
    \E i \in 1..Len(s) :
        /\ i + Len(suffix) - 1 <= Len(s)
        /\ SubSeq(s, i, i + Len(suffix) - 1) = suffix
EndsWith(s, suffix) ==
    /\ Len(s) >= Len(suffix)
    /\ SubSeq(s, Len(s) - Len(suffix) + 1, Len(s)) = suffix

\* os.path.join(a, b) for a relative b
PathJoin(a, b) == a \o <<"/">> \o b

\* os.path.relpath(p, start) for p below start
RelPath(p, start) ==
    IF Len(p) > Len(start) + 1 /\ SubSeq(p, 1, Len(start) + 1) = start \o <<"/">>
    THEN SubSeq(p, Len(start) + 2, Len(p))
    ELSE p

ExtJs == <<".", "j", "s">>
ExtPy == <<".", "p", "y">>
SuffixOppia == <<"o", "p", "p", "i", "a">>

\* str(e) of a SystemExit e: '' for SystemExit() / SystemExit(None), the
\* decimal digits for an integer code.
DigitChar(d) == <<"0", "1", "2", "3", "4", "5", "6", "7", "8", "9">>[d + 1]
RECURSIVE IntToStr(_)
IntToStr(n) == IF n < 10 THEN <<DigitChar(n)>> ELSE IntToStr(n \div 10) \o <<DigitChar(n % 10)>>
ExitArgNone == [kind |-> "None", val |-> 0]
ExitArgInt(n) == [kind |-> "int", val |-> n]
StrOfExit(arg) == IF arg.kind = "None" THEN <<>> ELSE IntToStr(arg.val)

\* How lint.Run ends: it returns, or raises SystemExit.  pylint leaves through
\* sys.exit(<integer status>) only, so the argument is an integer.
PyOutcomes ==
    {[raised |-> FALSE, arg |-> ExitArgNone]} \cup
    {[raised |-> TRUE, arg |-> a] : a \in {ExitArgInt(0), ExitArgInt(2), ExitArgInt(16)}}

(***************************************************************************)
(* State.  The first group is the environment, fixed for one run; the      *)
(* second the script's variables; the third what the run did to the        *)
(* outside world.                                                          *)
(***************************************************************************)
VARIABLES
    cwd,                \* os.getcwd()
    pylint_exists,      \* os.path.exists(_PYLINT_PATH)
    jscs_exists,        \* os.path.exists(jscs_path)
    arg_path,           \* parsed_args.path
    path_exists,        \* os.path.exists(input_path)
    path_isfile,        \* os.path.isfile(input_path)
    walk_names,         \* file names os.walk(input_path) yields
    unstaged_files,     \* git diff --name-only
    staged_files,       \* git diff --cached --name-only --diff-filter=ACM
    pc,
    input_path,
    all_files,
    js_files_to_lint,
    py_files_to_lint,
    ind,                \* index of the next file of the JavaScript loop
    num_files_with_errors,
    summary_messages,
    stdout,             \* what the script printed, one tag per print
    exit_status,        \* NotExited while running
    resolver_calls,     \* which sources of the candidate set were queried
    js_invocations,     \* one record per subprocess.Popen of jscs
    py_invocations      \* one record per lint.Run

env == <<cwd, pylint_exists, jscs_exists, arg_path, path_exists, path_isfile,
         walk_names, unstaged_files, staged_files>>
prog == <<pc, input_path, all_files, js_files_to_lint, py_files_to_lint, ind,
          num_files_with_errors, summary_messages, stdout, exit_status>>
hist == <<resolver_calls, js_invocations, py_invocations>>
vars == <<env, prog, hist>>

NotExited == 0 - 1

Init ==
    /\ cwd \in Cwds
    /\ pylint_exists \in BOOLEAN
    /\ jscs_exists \in BOOLEAN
    /\ arg_path \in PathArgs
    /\ path_exists \in BOOLEAN
    /\ path_isfile \in BOOLEAN
    \* a file exists; without --path nothing is looked up
    /\ path_isfile => path_exists
    /\ ~Truthy(arg_path) => ~path_exists
    /\ walk_names \in NoDupSeqs(FileNames, MaxDirFiles)
    \* only an existing directory has anything to walk
    /\ ~(path_exists /\ ~path_isfile) => walk_names = <<>>
    /\ unstaged_files \in NoDupSeqs(FileNames, MaxUnstaged)
    /\ staged_files \in NoDupSeqs(FileNames, MaxStaged)
    /\ pc = "import"
    /\ input_path = <<>>
    /\ all_files = <<>>
    /\ js_files_to_lint = <<>>
    /\ py_files_to_lint = <<>>
    /\ ind = 0
    /\ num_files_with_errors = 0
    /\ summary_messages = <<>>
    /\ stdout = <<>>
    /\ exit_status = NotExited
    /\ resolver_calls = <<>>
    /\ js_invocations = <<>>
    /\ py_invocations = <<>>

\* sys.exit(code): the process ends with that status
SysExit(code) ==
    /\ pc' = "exited"
    /\ exit_status' = code

(***************************************************************************)
(* Module level: the pylint installation check.                            *)
(***************************************************************************)
ImportModule ==
    /\ pc = "import"
    /\ IF ~pylint_exists
       THEN /\ stdout' = stdout \o <<"ERROR pylint">>
            /\ SysExit(1)
       ELSE /\ pc' = "parse_args"
            /\ UNCHANGED <<stdout, exit_status>>
    /\ UNCHANGED <<env, hist, input_path, all_files, js_files_to_lint, py_files_to_lint,
                   ind, num_files_with_errors, summary_messages>>

(***************************************************************************)
(* _pre_commit_linter: working-directory notice and --path check.          *)
(***************************************************************************)
CwdNotice == IF ~EndsWith(cwd, SuffixOppia) THEN <<"ERROR cwd">> ELSE <<>>

PathMissingNever(path, exists) == FALSE
PathMissing(path, exists) == Truthy(path) /\ ~exists

ParseArgs ==
    /\ pc = "parse_args"
    /\ IF PathMissing(arg_path, path_exists)
       THEN /\ input_path' = PathJoin(cwd, arg_path)
            /\ stdout' = stdout \o CwdNotice \o <<"Could not locate">>
            /\ SysExit(0)
       ELSE /\ input_path' = IF Truthy(arg_path) THEN PathJoin(cwd, arg_path) ELSE arg_path
            /\ stdout' = stdout \o CwdNotice
            /\ pc' = "check_jscs"
            /\ UNCHANGED exit_status
    /\ UNCHANGED <<env, hist, all_files, js_files_to_lint, py_files_to_lint,
                   ind, num_files_with_errors, summary_messages>>

\* The JSCS installation check prints and goes on.
CheckJscs ==
    /\ pc = "check_jscs"
    /\ stdout' = IF ~jscs_exists THEN stdout \o <<"ERROR node-jscs">> ELSE stdout
    /\ pc' = "resolve"
    /\ UNCHANGED <<env, hist, input_path, all_files, js_files_to_lint, py_files_to_lint,
                   ind, num_files_with_errors, summary_messages, exit_status>>

(***************************************************************************)
(* The candidate set.                                                      *)
(***************************************************************************)
RECURSIVE WithoutSeen(_, _)
WithoutSeen(s, seen) ==
    IF s = <<>> THEN <<>>
    ELSE IF \E i \in 1..Len(seen) : seen[i] = Head(s)
         THEN WithoutSeen(Tail(s), seen)
         ELSE <<Head(s)>> \o WithoutSeen(Tail(s), seen)

GetChangedFilenamesDedup(unstaged, staged) == unstaged \o WithoutSeen(staged, unstaged)
GetChangedFilenames(unstaged, staged) == unstaged \o staged

\* os.walk is modelled one level deep: every file sits in dir_path itself.
GetAllFilesInDirectory(dir_path, names) ==
    [i \in 1..Len(names) |-> RelPath(PathJoin(dir_path, names[i]), cwd)]

\* ResolveFiles as it would be if the changed files were added to an explicit file.
ResolveFilesAlsoChanged ==
    /\ pc = "resolve"
    /\ IF Truthy(input_path)
       THEN IF path_isfile
            THEN /\ all_files' = <<input_path>> \o GetChangedFilenames(unstaged_files, staged_files)
                 /\ resolver_calls' = Append(resolver_calls, "file")
            ELSE /\ all_files' = GetAllFilesInDirectory(input_path, walk_names)
                 /\ resolver_calls' = Append(resolver_calls, "walk")
       ELSE /\ all_files' = GetChangedFilenames(unstaged_files, staged_files)
            /\ resolver_calls' = resolver_calls \o <<"git diff", "git diff --cached">>
    /\ pc' = "route"
    /\ UNCHANGED <<env, input_path, js_files_to_lint, py_files_to_lint, ind,
                   num_files_with_errors, summary_messages, stdout, exit_status,
                   js_invocations, py_invocations>>

ResolveFiles ==
    /\ pc = "resolve"
    /\ IF Truthy(input_path)
       THEN IF path_isfile
            THEN /\ all_files' = <<input_path>>
                 /\ resolver_calls' = Append(resolver_calls, "file")
            ELSE /\ all_files' = GetAllFilesInDirectory(input_path, walk_names)
                 /\ resolver_calls' = Append(resolver_calls, "walk")
       ELSE /\ all_files' = GetChangedFilenames(unstaged_files, staged_files)
            /\ resolver_calls' = resolver_calls \o <<"git diff", "git diff --cached">>
    /\ pc' = "route"
    /\ UNCHANGED <<env, input_path, js_files_to_lint, py_files_to_lint, ind,
                   num_files_with_errors, summary_messages, stdout, exit_status,
                   js_invocations, py_invocations>>

(***************************************************************************)
(* The language buckets.                                                   *)
(***************************************************************************)
IsJs(filename) == EndsWith(filename, ExtJs)
IsPy(filename) == EndsWith(filename, ExtPy)

\* Route as it would be if the buckets were taken out of the candidate set.
IsUnrouted(filename) == ~IsJs(filename) /\ ~IsPy(filename)
RouteConsuming ==
    /\ pc = "route"
    /\ js_files_to_lint' = SelectSeq(all_files, IsJs)
    /\ py_files_to_lint' = SelectSeq(all_files, IsPy)
    /\ all_files' = SelectSeq(all_files, IsUnrouted)
    /\ stdout' = stdout \o <<"Starting jscs linter">>
    /\ pc' = "lint_js"
    /\ UNCHANGED <<env, hist, input_path, ind, num_files_with_errors,
                   summary_messages, exit_status>>

Route ==
    /\ pc = "route"
    /\ js_files_to_lint' = SelectSeq(all_files, IsJs)
    /\ py_files_to_lint' = SelectSeq(all_files, IsPy)
    /\ stdout' = stdout \o <<"Starting jscs linter">>
    /\ pc' = "lint_js"
    /\ UNCHANGED <<env, hist, input_path, all_files, ind, num_files_with_errors,
                   summary_messages, exit_status>>

(***************************************************************************)
(* _lint_js_files: one jscs process per file.                              *)
(***************************************************************************)
EmptySummary == [status |-> "", language |-> "", count |-> 0]

NoFilesToLintNever(files_to_lint) == FALSE
NoFilesToLint(files_to_lint) == ~Truthy(files_to_lint)

LintJsBegin ==
    /\ pc = "lint_js"
    /\ ind' = 0
    /\ num_files_with_errors' = 0
    /\ IF NoFilesToLint(js_files_to_lint)
       THEN /\ stdout' = stdout \o <<"There are no JavaScript files to lint.", "Starting pylint">>
            /\ summary_messages' = Append(summary_messages, EmptySummary)
            /\ pc' = "lint_py"
       ELSE /\ pc' = "js_loop"
            /\ UNCHANGED <<stdout, summary_messages>>
    /\ UNCHANGED <<env, hist, input_path, all_files, js_files_to_lint, py_files_to_lint,
                   exit_status>>

JsLinterFailedNever(linter_stderr) == FALSE
JsLinterFailed(linter_stderr) == Truthy(linter_stderr)

JsHasViolationsNever(linter_stdout) == FALSE
JsHasViolations(linter_stdout) == Truthy(linter_stdout)

\* enumerate(files_to_lint): the file of the iteration with index i ...
NextJsFileFromEnd(files_to_lint, i) == files_to_lint[Len(files_to_lint) - i]
NextJsFile(files_to_lint, i) == files_to_lint[i + 1]

\* ... and the index of the iteration after it, whatever the linter wrote.
IndAfterRetry(i, linter_stdout, num_js_files) == IF Truthy(linter_stdout) THEN i ELSE i + 1
IndAfterBreak(i, linter_stdout, num_js_files) ==
    IF Truthy(linter_stdout) THEN num_js_files ELSE i + 1
IndAfter(i, linter_stdout, num_js_files) == i + 1

JsInvocation(filename, linter_stdout, linter_stderr) ==
    [file |-> filename, out |-> linter_stdout, err |-> linter_stderr]

\* LintJsFile as it would be if a failed linter only ended its own bucket.
LintJsFileEndsBucketOnly ==
    /\ pc = "js_loop"
    /\ ind < Len(js_files_to_lint)
    /\ \E linter_stdout \in StreamTexts, linter_stderr \in StreamTexts :
        LET filename == NextJsFile(js_files_to_lint, ind) IN
        /\ js_invocations' =
               Append(js_invocations, JsInvocation(filename, linter_stdout, linter_stderr))
        /\ IF JsLinterFailed(linter_stderr)
           THEN /\ stdout' = stdout \o <<"Linting file", "LINTER FAILED", "linter_stderr">>
                /\ summary_messages' =
                       Append(summary_messages,
                              [status |-> "FAILED", language |-> "JavaScript", count |-> 1])
                /\ pc' = "lint_py"
                /\ UNCHANGED <<ind, num_files_with_errors, exit_status>>
           ELSE /\ ind' = IndAfter(ind, linter_stdout, Len(js_files_to_lint))
                /\ IF JsHasViolations(linter_stdout)
                   THEN /\ num_files_with_errors' = num_files_with_errors + 1
                        /\ stdout' = stdout \o <<"Linting file", "linter_stdout">>
                   ELSE /\ stdout' = stdout \o <<"Linting file">>
                        /\ UNCHANGED num_files_with_errors
                /\ UNCHANGED <<pc, exit_status, summary_messages>>
    /\ UNCHANGED <<env, input_path, all_files, js_files_to_lint, py_files_to_lint,
                   resolver_calls, py_invocations>>

\* LintJsFile as it would be if standard output were looked at first.
LintJsFileStdoutFirst ==
    /\ pc = "js_loop"
    /\ ind < Len(js_files_to_lint)
    /\ \E linter_stdout \in StreamTexts, linter_stderr \in StreamTexts :
        LET filename == NextJsFile(js_files_to_lint, ind)
            counted == IF JsHasViolations(linter_stdout)
                       THEN num_files_with_errors + 1
                       ELSE num_files_with_errors
            shown == IF JsHasViolations(linter_stdout)
                     THEN <<"Linting file", "linter_stdout">>
                     ELSE <<"Linting file">>
        IN
        /\ js_invocations' =
               Append(js_invocations, JsInvocation(filename, linter_stdout, linter_stderr))
        /\ num_files_with_errors' = counted
        /\ IF JsLinterFailed(linter_stderr)
           THEN /\ stdout' = stdout \o shown \o <<"LINTER FAILED", "linter_stderr">>
                /\ SysExit(1)
                /\ UNCHANGED ind
           ELSE /\ ind' = IndAfter(ind, linter_stdout, Len(js_files_to_lint))
                /\ stdout' = stdout \o shown
                /\ UNCHANGED <<pc, exit_status>>
    /\ UNCHANGED <<env, input_path, all_files, js_files_to_lint, py_files_to_lint,
                   summary_messages, resolver_calls, py_invocations>>

\* One iteration of the loop.  What jscs writes is the environment's choice;
\* the script does not make it depend on jscs_exists.
LintJsFile ==
    /\ pc = "js_loop"
    /\ ind < Len(js_files_to_lint)
    /\ \E linter_stdout \in StreamTexts, linter_stderr \in StreamTexts :
        LET filename == NextJsFile(js_files_to_lint, ind) IN
        /\ js_invocations' =
               Append(js_invocations, JsInvocation(filename, linter_stdout, linter_stderr))
        /\ IF JsLinterFailed(linter_stderr)
           THEN /\ stdout' = stdout \o <<"Linting file", "LINTER FAILED", "linter_stderr">>
                /\ SysExit(1)
                /\ UNCHANGED <<ind, num_files_with_errors>>
           ELSE /\ ind' = IndAfter(ind, linter_stdout, Len(js_files_to_lint))
                /\ IF JsHasViolations(linter_stdout)
                   THEN /\ num_files_with_errors' = num_files_with_errors + 1
                        /\ stdout' = stdout \o <<"Linting file", "linter_stdout">>
                   ELSE /\ stdout' = stdout \o <<"Linting file">>
                        /\ UNCHANGED num_files_with_errors
                /\ UNCHANGED <<pc, exit_status>>
    /\ UNCHANGED <<env, input_path, all_files, js_files_to_lint, py_files_to_lint,
                   summary_messages, resolver_calls, py_invocations>>

JsSummaryAllFailed(num_errors, num_js_files) ==
    IF num_errors = num_js_files
    THEN [status |-> "FAILED", language |-> "JavaScript", count |-> num_errors]
    ELSE [status |-> "SUCCESS", language |-> "JavaScript", count |-> num_js_files]
JsSummaryNeverFailed(num_errors, num_js_files) ==
    [status |-> "SUCCESS", language |-> "JavaScript", count |-> num_js_files]
JsSummary(num_errors, num_js_files) ==
    IF num_errors # 0
    THEN [status |-> "FAILED", language |-> "JavaScript", count |-> num_errors]
    ELSE [status |-> "SUCCESS", language |-> "JavaScript", count |-> num_js_files]

LintJsEnd ==
    /\ pc = "js_loop"
    /\ ind = Len(js_files_to_lint)
    /\ summary_messages' =
           Append(summary_messages, JsSummary(num_files_with_errors, Len(js_files_to_lint)))
    /\ stdout' = stdout \o <<"Starting pylint">>
    /\ pc' = "lint_py"
    /\ UNCHANGED <<env, hist, input_path, all_files, js_files_to_lint, py_files_to_lint,
                   ind, num_files_with_errors, exit_status>>

(***************************************************************************)
(* _lint_py_files: one lint.Run for the whole bucket.                      *)
(***************************************************************************)
AreThereErrorsAnyExit(outcome) == outcome.raised
AreThereErrors(outcome) == outcome.raised /\ StrOfExit(outcome.arg) # <<"0">>

PySummary(are_there_errors, num_py_files) ==
    IF are_there_errors
    THEN [status |-> "FAILED", language |-> "Python", count |-> 0]
    ELSE [status |-> "SUCCESS", language |-> "Python", count |-> num_py_files]

LintPyFiles ==
    /\ pc = "lint_py"
    /\ IF NoFilesToLint(py_files_to_lint)
       THEN /\ stdout' = stdout \o <<"There are no Python files to lint.">>
            /\ summary_messages' = Append(summary_messages, EmptySummary)
            /\ UNCHANGED py_invocations
       ELSE \E outcome \in PyOutcomes :
            /\ py_invocations' =
                   Append(py_invocations, [files |-> py_files_to_lint, outcome |-> outcome])
            /\ stdout' = stdout \o <<"Linting files">>
            /\ summary_messages' =
                   Append(summary_messages,
                          PySummary(AreThereErrors(outcome), Len(py_files_to_lint)))
    /\ pc' = "report"
    /\ UNCHANGED <<env, input_path, all_files, js_files_to_lint, py_files_to_lint, ind,
                   num_files_with_errors, exit_status, resolver_calls, js_invocations>>

(***************************************************************************)
(* The summary is printed and the script falls off its end.                *)
(***************************************************************************)
Report ==
    /\ pc = "report"
    /\ stdout' = stdout \o <<"summary">>
    /\ SysExit(0)
    /\ UNCHANGED <<env, hist, input_path, all_files, js_files_to_lint, py_files_to_lint,
                   ind, num_files_with_errors, summary_messages>>

Next ==
    \/ ImportModule
    \/ ParseArgs
    \/ CheckJscs
    \/ ResolveFiles
    \/ Route
    \/ LintJsBegin
    \/ LintJsFile
    \/ LintJsEnd
    \/ LintPyFiles
    \/ Report

Spec == Init /\ [][Next]_vars

\* The interpreter runs the script step by step to its end: a step that can
\* be taken is taken (every subprocess and lint.Run call returns).  With
\* --path the version-control lists are never read, so the runs checked for
\* progress leave them empty there.
FairInit ==
    /\ Init
    /\ Truthy(arg_path) => unstaged_files = <<>> /\ staged_files = <<>>
FairSpec == FairInit /\ [][Next]_vars /\ WF_vars(Next)

TypeOK ==
    /\ pc \in {"import", "parse_args", "check_jscs", "resolve", "route", "lint_js",
               "js_loop", "lint_py", "report", "exited"}
    /\ exit_status \in {NotExited, 0, 1}
    /\ (pc = "exited") = (exit_status # NotExited)
    /\ ind \in 0..Len(js_files_to_lint)
    /\ Len(summary_messages) <= 2

(***************************************************************************)
(* Vocabulary of the properties.                                           *)
(***************************************************************************)
Printed(tag) == \E i \in 1..Len(stdout) : stdout[i] = tag

\* The JavaScript, resp. Python, Invoker has returned its summary.
JsReturned == Len(summary_messages) >= 1
PyReturned == Len(summary_messages) = 2

\* The Result Aggregator was reached: the summary has been printed.
ReportPrinted == Printed("summary")

SomeSummaryFailed == \E i \in 1..Len(summary_messages) : summary_messages[i].status = "FAILED"

\* The name's last characters are those of ext, stated character by character.
HasExt(name, ext) ==
    /\ Len(name) >= Len(ext)
    /\ \A i \in 1..Len(ext) : name[Len(name) - Len(ext) + i] = ext[i]
HasJsExt(name) == HasExt(name, <<".", "j", "s">>)
HasPyExt(name) == HasExt(name, <<".", "p", "y">>)
Recognised(name) == HasJsExt(name) \/ HasPyExt(name)

\* Some jscs process wrote to its error stream.
SomeToolError == \E k \in 1..Len(js_invocations) : js_invocations[k].err # <<>>

\* The files jscs was launched on, in launch order.
JsLaunched == [k \in 1..Len(js_invocations) |-> js_invocations[k].file]

PathNotFound == arg_path # <<>> /\ ~path_exists

(***************************************************************************)
(* C1: a run that reaches the Result Aggregator ends with a non-zero exit  *)
(* status if some bucket's summary is FAILED, and with status 0 only if    *)
(* none is.  The script prints the summary and falls off its end, so the   *)
(* status is 0 whatever the summaries say.                                 *)
(***************************************************************************)
C1_FailureExitsNonZero ==
    (pc = "exited" /\ ReportPrinted) =>
        /\ SomeSummaryFailed => exit_status # 0
        /\ exit_status = 0 => ~SomeSummaryFailed

(***************************************************************************)
(* C2, as claimed: after a jscs process wrote to its error stream the      *)
(* Python Invoker still runs on its files and the final report records     *)
(* FAILED for the JavaScript bucket.                                       *)
(***************************************************************************)
C2_ToolErrorFatalToBucketOnly ==
    (pc = "exited" /\ SomeToolError) =>
        /\ PyReturned
        /\ py_files_to_lint # <<>> => py_invocations # <<>>
        /\ ReportPrinted
        /\ summary_messages[1].status = "FAILED"

(***************************************************************************)
(* C2, amended: a jscs process that writes to its error stream ends the    *)
(* whole run at once with exit status 1: "LINTER FAILED" is printed, the   *)
(* Python Invoker is never run, no summary is recorded and no report is    *)
(* printed.                                                                *)
(***************************************************************************)
C2_ToolErrorEndsRun ==
    SomeToolError =>
        /\ pc = "exited"
        /\ exit_status = 1
        /\ Printed("LINTER FAILED")
        /\ py_invocations = <<>>
        /\ summary_messages = <<>>
        /\ ~ReportPrinted

C2_Witness ==
    /\ SomeToolError
    /\ pc = "exited"
    /\ py_files_to_lint # <<>>
    /\ Len(js_invocations) >= 2

(***************************************************************************)
(* C3: the k-th jscs process is launched on the k-th file of the bucket,   *)
(* and if it writes to its error stream it is the last one launched: no    *)
(* process is launched for files k+1..n.                                   *)
(***************************************************************************)
C3_NoLaunchAfterToolError ==
    /\ Len(js_invocations) <= Len(js_files_to_lint)
    /\ \A k \in 1..Len(js_invocations) :
        /\ js_invocations[k].file = js_files_to_lint[k]
        /\ js_invocations[k].err # <<>> => Len(js_invocations) = k

C3_Witness ==
    /\ pc = "exited"
    /\ Len(js_files_to_lint) = 2
    /\ Len(js_invocations) = 1
    /\ js_invocations[1].err # <<>>

(***************************************************************************)
(* C4: with a --path that does not exist the run ends in the path check:   *)
(* no source of the candidate set is queried, no candidate set or bucket   *)
(* is built and neither linter is ever invoked.                            *)
(***************************************************************************)
C4_MissingPathStopsRun ==
    PathNotFound =>
        /\ pc \in {"import", "parse_args", "exited"}
        /\ resolver_calls = <<>>
        /\ all_files = <<>>
        /\ js_files_to_lint = <<>> /\ py_files_to_lint = <<>>
        /\ js_invocations = <<>>
        /\ py_invocations = <<>>

C4_Witness ==
    /\ PathNotFound
    /\ pc = "exited"
    /\ Printed("Could not locate")
    /\ unstaged_files # <<>>

(***************************************************************************)
(* C5: with a --path that does not exist the process exits with a          *)
(* non-zero status.  The script calls sys.exit(0) there.                   *)
(***************************************************************************)
C5_MissingPathExitsNonZero ==
    (PathNotFound /\ pc = "exited") => exit_status # 0

(***************************************************************************)
(* C6: if the pylint directory or the JSCS binary does not exist, no       *)
(* linter is invoked for any file and the process exits non-zero.  The     *)
(* script only prints a notice when the JSCS binary is missing.            *)
(***************************************************************************)
C6_MissingToolAborts ==
    (~pylint_exists \/ ~jscs_exists) =>
        /\ js_invocations = <<>>
        /\ py_invocations = <<>>
        /\ pc = "exited" => exit_status # 0

(***************************************************************************)
(* C7: when the JavaScript Invoker returns for a non-empty bucket (no      *)
(* process wrote to its error stream), every file of the bucket was        *)
(* invoked, and the summary is SUCCESS if every invocation wrote nothing   *)
(* to standard output and FAILED if at least one wrote something.          *)
(***************************************************************************)
C7_JsSummaryStatus ==
    (JsReturned /\ js_files_to_lint # <<>>) =>
        /\ Len(js_invocations) = Len(js_files_to_lint)
        /\ ~SomeToolError
        /\ (\A k \in 1..Len(js_invocations) : js_invocations[k].out = <<>>)
               => summary_messages[1].status = "SUCCESS"
        /\ (\E k \in 1..Len(js_invocations) : js_invocations[k].out # <<>>)
               => summary_messages[1].status = "FAILED"

C7_Witness ==
    /\ JsReturned
    /\ Len(js_invocations) = 2
    /\ js_invocations[1].out = <<>>
    /\ js_invocations[2].out # <<>>
    /\ summary_messages[1].status = "FAILED"

(***************************************************************************)
(* C8: an empty bucket never has a linter invoked on it, its Invoker       *)
(* never enters the per-file loop, and the summary it returns is the       *)
(* empty one, with the "no files to lint" notice printed: never SUCCESS    *)
(* or FAILED.                                                              *)
(***************************************************************************)
C8_EmptyBucketNotApplicable ==
    /\ js_files_to_lint = <<>> =>
        /\ js_invocations = <<>>
        /\ pc # "js_loop"
        /\ JsReturned =>
            /\ summary_messages[1] = EmptySummary
            /\ Printed("There are no JavaScript files to lint.")
    /\ py_files_to_lint = <<>> =>
        /\ py_invocations = <<>>
        /\ PyReturned =>
            /\ summary_messages[2] = EmptySummary
            /\ Printed("There are no Python files to lint.")

C8_Witness ==
    /\ pc = "exited"
    /\ ReportPrinted
    /\ all_files # <<>>
    /\ js_files_to_lint = <<>>
    /\ py_files_to_lint = <<>>

(***************************************************************************)
(* C9: once the buckets are built, every file of the JavaScript bucket     *)
(* ends in ".js" and every file of the Python bucket in ".py"; the         *)
(* buckets are those of the candidate set with the files of neither        *)
(* extension removed; every linter invocation is on files of its own       *)
(* extension; and a SUCCESS summary counts the recognised files only.      *)
(***************************************************************************)
C9_UnrecognisedIgnored ==
    pc # "route" =>
        /\ \A i \in 1..Len(js_files_to_lint) : HasJsExt(js_files_to_lint[i])
        /\ \A i \in 1..Len(py_files_to_lint) : HasPyExt(py_files_to_lint[i])
        /\ js_files_to_lint = SelectSeq(SelectSeq(all_files, Recognised), HasJsExt)
        /\ py_files_to_lint = SelectSeq(SelectSeq(all_files, Recognised), HasPyExt)
        /\ \A k \in 1..Len(js_invocations) : HasJsExt(js_invocations[k].file)
        /\ \A k \in 1..Len(py_invocations) :
               \A i \in 1..Len(py_invocations[k].files) : HasPyExt(py_invocations[k].files[i])
        /\ \A i \in 1..Len(summary_messages) :
               summary_messages[i].status = "SUCCESS" =>
                   summary_messages[i].count =
                       Cardinality({j \in 1..Len(all_files) :
                                      IF i = 1 THEN HasJsExt(all_files[j])
                                               ELSE HasPyExt(all_files[j])})

C9_Witness ==
    /\ pc = "exited"
    /\ ReportPrinted
    /\ \E j \in 1..Len(all_files) : ~Recognised(all_files[j])
    /\ Len(js_invocations) = 1
    /\ Len(py_invocations) = 1

(***************************************************************************)
(* C10: without --path the candidate set is the unstaged list followed by  *)
(* the staged list, nothing removed; and when the JavaScript Invoker       *)
(* returns, jscs has been launched once per ".js" entry of that            *)
(* concatenation, in order, so twice on a file present in both lists.      *)
(***************************************************************************)
C10_ChangedFilesConcatenated ==
    (arg_path = <<>> /\ resolver_calls # <<>>) =>
        /\ resolver_calls = <<"git diff", "git diff --cached">>
        /\ all_files = unstaged_files \o staged_files
        /\ pc # "route" =>
               js_files_to_lint = SelectSeq(unstaged_files \o staged_files, HasJsExt)
        /\ JsReturned => JsLaunched = SelectSeq(unstaged_files \o staged_files, HasJsExt)

C10_Witness ==
    /\ arg_path = <<>>
    /\ JsReturned
    /\ \E i \in 1..Len(unstaged_files) :
           /\ staged_files = <<unstaged_files[i]>>
           /\ Cardinality({k \in 1..Len(js_invocations) :
                             js_invocations[k].file = unstaged_files[i]}) = 2

(***************************************************************************)
(* C11: with a --path that names an existing file, the candidate set is    *)
(* the one-element list of that path (joined to the working directory),    *)
(* whatever the unstaged and staged lists hold: the version-control        *)
(* backend is not queried and nothing but that path is ever linted.        *)
(***************************************************************************)
C11_ExplicitFileOnly ==
    (arg_path # <<>> /\ path_isfile /\ resolver_calls # <<>>) =>
        /\ resolver_calls = <<"file">>
        /\ all_files = <<cwd \o <<"/">> \o arg_path>>
        /\ \A k \in 1..Len(js_invocations) :
               js_invocations[k].file = cwd \o <<"/">> \o arg_path
        /\ \A k \in 1..Len(py_invocations) :
               py_invocations[k].files = <<cwd \o <<"/">> \o arg_path>>

C11_Witness ==
    /\ arg_path # <<>>
    /\ path_isfile
    /\ Len(unstaged_files) = 2
    /\ staged_files # <<>>
    /\ JsReturned
    /\ Len(js_invocations) = 1

\* Invocation k of jscs yielded Violations: text on standard output only.
JsViolationsAt(k) == js_invocations[k].out # <<>> /\ js_invocations[k].err = <<>>
SomeJsViolations == \E k \in 1..Len(js_invocations) : JsViolationsAt(k)

\* The pylint run ended with a non-zero exit status.
PyLintFailed ==
    \E k \in 1..Len(py_invocations) :
        /\ py_invocations[k].outcome.raised
        /\ py_invocations[k].outcome.arg.kind = "int"
        /\ py_invocations[k].outcome.arg.val # 0

\* The run was cut short by a failed linter, with its message printed.
TerminatedWithMessage == pc = "exited" /\ Printed("LINTER FAILED") /\ ~ReportPrinted

(***************************************************************************)
(* C12: no failure is silent.  When a run has ended in which a jscs        *)
(* process wrote to its error stream, the run was cut short with           *)
(* "LINTER FAILED" printed; in which a jscs process yielded Violations,    *)
(* either that, or the report was printed with FAILED for the JavaScript   *)
(* bucket; in which pylint ended with a non-zero status, the report was    *)
(* printed with FAILED for the Python bucket.                              *)
(***************************************************************************)
C12_NoSilentFailure ==
    pc = "exited" =>
        /\ SomeToolError => TerminatedWithMessage
        /\ SomeJsViolations =>
               \/ TerminatedWithMessage
               \/ ReportPrinted /\ summary_messages[1].status = "FAILED"
        /\ PyLintFailed => ReportPrinted /\ summary_messages[2].status = "FAILED"

C12_Witness ==
    /\ pc = "exited"
    /\ SomeJsViolations
    /\ PyLintFailed
    /\ ReportPrinted
    /\ summary_messages[1].status = "FAILED"
    /\ summary_messages[2].status = "FAILED"

(***************************************************************************)
(* C13: Violations do not stop the loop.  Once the per-file loop has been  *)
(* entered, the run reaches a state in which jscs has been launched on     *)
(* every file of the bucket, in order, unless some jscs process wrote to   *)
(* its error stream; standard output of earlier files does not matter.     *)
(***************************************************************************)
C13_ViolationsDoNotStop ==
    (pc = "js_loop") ~> (SomeToolError \/ JsLaunched = js_files_to_lint)

C13_Witness ==
    /\ Len(js_files_to_lint) = 2
    /\ JsLaunched = js_files_to_lint
    /\ JsViolationsAt(1)
    /\ JsViolationsAt(2)

(***************************************************************************)
(* C14: the run is sequential and keeps the candidate set's order.  The    *)
(* k-th jscs process is launched on the k-th ".js" entry of the candidate  *)
(* set, and inside the loop exactly the files before the loop index have   *)
(* been launched and have finished; pylint is run on the ".py" entries in  *)
(* candidate-set order; and pylint is only ever run after the JavaScript   *)
(* Invoker has returned, with jscs finished on every file of its bucket.   *)
(***************************************************************************)
C14_SequentialInOrder ==
    LET js_in_order == SelectSeq(all_files, HasJsExt)
        py_in_order == SelectSeq(all_files, HasPyExt)
    IN  /\ Len(js_invocations) <= Len(js_in_order)
        /\ \A k \in 1..Len(js_invocations) : js_invocations[k].file = js_in_order[k]
        /\ pc = "js_loop" => Len(js_invocations) = ind /\ py_invocations = <<>>
        /\ \A k \in 1..Len(py_invocations) : py_invocations[k].files = py_in_order
        /\ py_invocations # <<>> =>
               /\ JsReturned
               /\ Len(js_invocations) = Len(js_in_order)

C14_Witness ==
    /\ Len(all_files) = 3
    /\ HasJsExt(all_files[1]) /\ HasPyExt(all_files[2]) /\ HasJsExt(all_files[3])
    /\ all_files[1] # all_files[3]
    /\ JsLaunched = <<all_files[1], all_files[3]>>
    /\ py_invocations # <<>>

(***************************************************************************)
(* C15: the Python Invoker is a batch.  When it has returned for a         *)
(* non-empty bucket, pylint was run exactly once, on the whole bucket;     *)
(* the summary is SUCCESS exactly when that run returned without           *)
(* SystemExit or left with exit status 0, and FAILED for every other exit  *)
(* status; a FAILED summary names no file and carries no count.  pylint    *)
(* is never run more than once.                                            *)
(***************************************************************************)
C15_PythonBatch ==
    /\ Len(py_invocations) <= 1
    /\ (PyReturned /\ py_files_to_lint # <<>>) =>
        LET outcome == py_invocations[1].outcome
            exit_zero == outcome.raised /\ outcome.arg.kind = "int" /\ outcome.arg.val = 0
        IN  /\ Len(py_invocations) = 1
            /\ py_invocations[1].files = py_files_to_lint
            /\ summary_messages[2].status \in {"SUCCESS", "FAILED"}
            /\ summary_messages[2].status = "SUCCESS" <=> (~outcome.raised \/ exit_zero)
            /\ summary_messages[2].status = "FAILED" =>
                   summary_messages[2] = [status |-> "FAILED", language |-> "Python", count |-> 0]

C15_Witness ==
    /\ PyReturned
    /\ Len(py_files_to_lint) = 2
    /\ py_invocations[1].outcome.raised
    /\ py_invocations[1].outcome.arg.val = 0
    /\ summary_messages[2].status = "SUCCESS"

(***************************************************************************)
(* C16: no retries.  jscs is never launched more often than the bucket     *)
(* has entries; inside the loop the launches made so far are exactly the   *)
(* entries before the loop index, one launch each, so the next launch is   *)
(* on an entry not launched before, also after Violations; after a         *)
(* process wrote to its error stream nothing is launched at all; and       *)
(* pylint is run at most once, never on an empty bucket.                   *)
(***************************************************************************)
C16_NoRetries ==
    /\ Len(js_invocations) <= Len(js_files_to_lint)
    /\ pc = "js_loop" =>
           /\ Len(js_invocations) = ind
           /\ \A k \in 1..ind : js_invocations[k].file = js_files_to_lint[k]
    /\ SomeToolError => pc = "exited"
    /\ Len(py_invocations) <= (IF py_files_to_lint = <<>> THEN 0 ELSE 1)

C16_Witness ==
    /\ pc = "exited"
    /\ Len(js_files_to_lint) = 2
    /\ Len(js_invocations) = 2
    /\ JsViolationsAt(1)
    /\ js_invocations[2].err # <<>>

(***************************************************************************)
(* C17: the candidate set is built once.  Only the resolver step changes   *)
(* the candidate set and only the routing step changes the buckets: the    *)
(* Router leaves the candidate set as it is, and both Invokers and the     *)
(* Aggregator leave the candidate set and both buckets as they are,        *)
(* whatever the linters produce.  The sources of the candidate set are     *)
(* queried in one step and never again.                                    *)
(***************************************************************************)
C17_CandidateSetImmutable ==
    [][/\ pc # "resolve" => all_files' = all_files
       /\ pc # "route" => /\ js_files_to_lint' = js_files_to_lint
                          /\ py_files_to_lint' = py_files_to_lint
       /\ resolver_calls # <<>> => resolver_calls' = resolver_calls]_vars

C17_Witness ==
    /\ pc = "exited"
    /\ ReportPrinted
    /\ Len(all_files) = 3
    /\ all_files = unstaged_files \o staged_files
    /\ Len(js_files_to_lint) + Len(py_files_to_lint) = 3
    /\ SomeJsViolations
    /\ py_invocations # <<>>

(***************************************************************************)
(* C18: the violations counter.  Always                                    *)
(*   0 <= num_files_with_errors <= launches so far <= bucket size,         *)
(* and the counter is the number of launches so far that wrote to          *)
(* standard output and not to the error stream.  When the loop has         *)
(* completed it is the number of bucket entries whose launch wrote to      *)
(* standard output, an entry occurring twice counting twice, and it is     *)
(* the count a FAILED summary reports.                                     *)
(***************************************************************************)
C18_ViolationsCounter ==
    /\ 0 <= num_files_with_errors
    /\ num_files_with_errors <= Len(js_invocations)
    /\ Len(js_invocations) <= Len(js_files_to_lint)
    /\ num_files_with_errors =
           Cardinality({k \in 1..Len(js_invocations) : JsViolationsAt(k)})
    /\ (JsReturned /\ js_files_to_lint # <<>>) =>
           /\ num_files_with_errors =
                  Cardinality({k \in 1..Len(js_files_to_lint) : js_invocations[k].out # <<>>})
           /\ summary_messages[1].status = "FAILED" =>
                  summary_messages[1].count = num_files_with_errors

C18_Witness ==
    /\ JsReturned
    /\ Len(js_files_to_lint) = 2
    /\ js_files_to_lint[1] = js_files_to_lint[2]
    /\ num_files_with_errors = 2

\* Invocation k of jscs wrote to both of its streams.
JsBothStreamsAt(k) == js_invocations[k].out # <<>> /\ js_invocations[k].err # <<>>

(***************************************************************************)
(* C19: the error stream comes first.  A jscs process that wrote to both   *)
(* streams is a ToolError: it is the last launch, the violations counter   *)
(* still counts only the earlier files that wrote to standard output, the  *)
(* standard output of that file is not printed, and the run has ended      *)
(* with exit status 1 and without summary or report.                       *)
(***************************************************************************)
C19_ErrorStreamFirst ==
    \A k \in 1..Len(js_invocations) :
        JsBothStreamsAt(k) =>
            /\ k = Len(js_invocations)
            /\ num_files_with_errors =
                   Cardinality({j \in 1..(k - 1) : js_invocations[j].out # <<>>})
            /\ SubSeq(stdout, Len(stdout) - 2, Len(stdout)) =
                   <<"Linting file", "LINTER FAILED", "linter_stderr">>
            /\ pc = "exited"
            /\ exit_status = 1
            /\ summary_messages = <<>>
            /\ ~ReportPrinted

C19_Witness ==
    /\ Len(js_invocations) = 2
    /\ JsViolationsAt(1)
    /\ JsBothStreamsAt(2)
    /\ num_files_with_errors = 1
    /\ exit_status = 1
====
